---- MODULE Spec2Model ----
(***************************************************************************)
(* Model of the Hou.la SDK client (src/src/config.ts, src/src/client.ts).  *)
(*                                                                         *)
(* State: the configuration object handed to the constructor, the client   *)
(* it produced (or the error it threw), the client's current workspace id  *)
(* and the calls made on the client, each with the fetch() request it      *)
(* issued, its abort timer, the response received so far and the way the   *)
(* returned promise settled.                                               *)
(*                                                                         *)
(* JavaScript values: strings are TLA+ strings, an optional value is       *)
(* Undefined or Some(v), a headers object is a function from header name   *)
(* to value, a thrown Error is a record of its name and message.           *)
(***************************************************************************)
EXTENDS Integers, Sequences, FiniteSets, TLC

VARIABLES
    cfgIn,        \* the HoulaConfig object passed to the constructor
    client,       \* the HoulaClient instance, once constructed
    thrown,       \* the error thrown by the constructor, if any
    workspaceId,  \* the client's current workspace id
    calls         \* the calls made on the client and their progress

vars == <<cfgIn, client, thrown, workspaceId, calls>>

(***************************************************************************)
(* JavaScript helpers                                                      *)
(***************************************************************************)

Undefined == [def |-> FALSE]

Some(v) == [def |-> TRUE, v |-> v]

\* String.prototype.startsWith
startsWith(s, p) == Len(s) >= Len(p) /\ SubSeq(s, 1, Len(p)) = p

\* a || b for an optional string a: "" and undefined are falsy
OrString(a, b) == IF a.def /\ a.v # "" THEN a.v ELSE b

\* a || b for an optional number a: 0 and undefined are falsy
OrNumber(a, b) == IF a.def /\ a.v # 0 THEN a.v ELSE b

(***************************************************************************)
(* config.ts                                                               *)
(***************************************************************************)

DEFAULT_CONFIG == [apiUrl |-> "https://hou.la", timeout |-> 30000]

ApiKeyRequiredError ==
    [name |-> "Error",
     message |-> "Hou.la SDK: apiKey is required. Get one at https://hou.la/admin/settings/api-keys"]

ApiKeyFormatError ==
    [name |-> "Error",
     message |-> "Hou.la SDK: Invalid API key format. API keys must start with houla_sk_"]

\* createConfig with the two checks in the other order
createConfigFormatFirst(config) ==
    IF ~startsWith(config.apiKey, "houla_sk_")
    THEN [ok |-> FALSE, error |-> ApiKeyFormatError]
    ELSE IF config.apiKey = ""
    THEN [ok |-> FALSE, error |-> ApiKeyRequiredError]
    ELSE [ok |-> TRUE,
          value |-> [apiKey |-> config.apiKey,
                     apiUrl |-> OrString(config.apiUrl, DEFAULT_CONFIG.apiUrl),
                     timeout |-> OrNumber(config.timeout, DEFAULT_CONFIG.timeout),
                     workspaceId |-> config.workspaceId]]

\* createConfig accepting any key that merely contains the "sk_" marker
createConfigLoosePrefix(config) ==
    IF config.apiKey = ""
    THEN [ok |-> FALSE, error |-> ApiKeyRequiredError]
    ELSE IF ~(startsWith(config.apiKey, "houla_sk_") \/ startsWith(config.apiKey, "sk_"))
    THEN [ok |-> FALSE, error |-> ApiKeyFormatError]
    ELSE [ok |-> TRUE,
          value |-> [apiKey |-> config.apiKey,
                     apiUrl |-> OrString(config.apiUrl, DEFAULT_CONFIG.apiUrl),
                     timeout |-> OrNumber(config.timeout, DEFAULT_CONFIG.timeout),
                     workspaceId |-> config.workspaceId]]

\* createConfig ignoring a supplied timeout
createConfigDropTimeout(config) ==
    IF config.apiKey = ""
    THEN [ok |-> FALSE, error |-> ApiKeyRequiredError]
    ELSE IF ~startsWith(config.apiKey, "houla_sk_")
    THEN [ok |-> FALSE, error |-> ApiKeyFormatError]
    ELSE [ok |-> TRUE,
          value |-> [apiKey |-> config.apiKey,
                     apiUrl |-> OrString(config.apiUrl, DEFAULT_CONFIG.apiUrl),
                     timeout |-> DEFAULT_CONFIG.timeout,
                     workspaceId |-> config.workspaceId]]

\* createConfig filling in the defaults with ?? instead of ||: only omitted
\* values are replaced
createConfigNullish(config) ==
    IF config.apiKey = ""
    THEN [ok |-> FALSE, error |-> ApiKeyRequiredError]
    ELSE IF ~startsWith(config.apiKey, "houla_sk_")
    THEN [ok |-> FALSE, error |-> ApiKeyFormatError]
    ELSE [ok |-> TRUE,
          value |-> [apiKey |-> config.apiKey,
                     apiUrl |-> IF config.apiUrl.def THEN config.apiUrl.v
                                ELSE DEFAULT_CONFIG.apiUrl,
                     timeout |-> IF config.timeout.def THEN config.timeout.v
                                 ELSE DEFAULT_CONFIG.timeout,
                     workspaceId |-> config.workspaceId]]

\* createConfig: the result is either the thrown error or the returned record
createConfig(config) ==
    IF config.apiKey = ""
    THEN [ok |-> FALSE, error |-> ApiKeyRequiredError]
    ELSE IF ~startsWith(config.apiKey, "houla_sk_")
    THEN [ok |-> FALSE, error |-> ApiKeyFormatError]
    ELSE [ok |-> TRUE,
          value |-> [apiKey |-> config.apiKey,
                     apiUrl |-> OrString(config.apiUrl, DEFAULT_CONFIG.apiUrl),
                     timeout |-> OrNumber(config.timeout, DEFAULT_CONFIG.timeout),
                     workspaceId |-> config.workspaceId]]

(***************************************************************************)
(* JSON and URL helpers used by client.ts                                  *)
(***************************************************************************)

\* JSON values: [t |-> "null"], [t |-> "str", s |-> string], [t |-> "num", n |-> integer],
\* [t |-> "bool", b |-> boolean], [t |-> "arr", a |-> <<strings>>] and objects
\* [t |-> "obj", props |-> <<[k |-> key, v |-> optional JSON value], ...>>]
JNull == [t |-> "null"]

JStr(s) == [t |-> "str", s |-> s]

JNum(n) == [t |-> "num", n |-> n]

JBool(b) == [t |-> "bool", b |-> b]

JArr(a) == [t |-> "arr", a |-> a]

JObj(props) == [t |-> "obj", props |-> props]

Prop(k, v) == [k |-> k, v |-> v]

RECURSIVE JoinStrings(_, _)
\* Array.prototype.join on an array of strings
JoinStrings(a, sep) ==
    IF a = <<>> THEN ""
    ELSE IF Len(a) = 1 THEN a[1]
    ELSE a[1] \o sep \o JoinStrings(Tail(a), sep)

\* obj.name for a parsed JSON value other than null: undefined unless obj is
\* an object holding the property (the last occurrence wins in JSON.parse)
GetProp(obj, name) ==
    IF obj.t # "obj" THEN Undefined
    ELSE LET idx == {i \in 1..Len(obj.props) : obj.props[i].k = name} IN
         IF idx = {} THEN Undefined
         ELSE obj.props[CHOOSE i \in idx : \A j \in idx : j <= i].v

\* JavaScript truthiness of an optional JSON value
Truthy(o) ==
    /\ o.def
    /\ o.v.t # "null"
    /\ (o.v.t = "str" => o.v.s # "")
    /\ (o.v.t = "num" => o.v.n # 0)
    /\ (o.v.t = "bool" => o.v.b)

\* String(v), as the Error constructor applies it to its message argument
ToJsString(v) ==
    CASE v.t = "str" -> v.s
      [] v.t = "num" -> ToString(v.n)
      [] v.t = "bool" -> (IF v.b THEN "true" ELSE "false")
      [] v.t = "arr" -> JoinStrings(v.a, ",")
      [] v.t = "null" -> "null"
      [] OTHER -> "[object Object]"

QuoteAll(a) == [i \in 1..Len(a) |-> "\"" \o a[i] \o "\""]

\* JSON.stringify of a value that is not an object
StringifyValue(v) ==
    CASE v.t = "str" -> "\"" \o v.s \o "\""
      [] v.t = "num" -> ToString(v.n)
      [] v.t = "bool" -> (IF v.b THEN "true" ELSE "false")
      [] v.t = "arr" -> "[" \o JoinStrings(QuoteAll(v.a), ",") \o "]"
      [] OTHER -> "null"

RECURSIVE StringifyProps(_)
\* the "key":value members of an object; undefined-valued properties are skipped
StringifyProps(props) ==
    IF props = <<>> THEN <<>>
    ELSE LET p == Head(props) IN
         IF p.v.def
         THEN <<"\"" \o p.k \o "\":" \o StringifyValue(p.v.v)>> \o StringifyProps(Tail(props))
         ELSE StringifyProps(Tail(props))

\* JSON.stringify leaving out the null-valued properties as well
JSON_stringifyNoNull(data) ==
    "{" \o JoinStrings(StringifyProps(SelectSeq(data.props,
                           LAMBDA p : ~(p.v.def /\ p.v.v.t = "null"))), ",") \o "}"

\* JSON.stringify(data) for a flat DTO
JSON_stringify(data) == "{" \o JoinStrings(StringifyProps(data.props), ",") \o "}"

\* application/x-www-form-urlencoded serialisation of one character
FormEncodeChar(c) ==
    CASE c = " " -> "+"
      [] c = "#" -> "%23"
      [] c = "&" -> "%26"
      [] c = "=" -> "%3D"
      [] c = "+" -> "%2B"
      [] c = "%" -> "%25"
      [] c = "/" -> "%2F"
      [] c = "?" -> "%3F"
      [] c = ":" -> "%3A"
      [] OTHER -> c

RECURSIVE FormEncode(_)
FormEncode(s) ==
    IF s = "" THEN "" ELSE FormEncodeChar(SubSeq(s, 1, 1)) \o FormEncode(SubSeq(s, 2, Len(s)))

\* URLSearchParams.prototype.set on a list of <<name, value>> pairs: the first
\* pair of that name takes the value and the others are removed, or the pair
\* is appended when the name is new
ParamsSet(params, name, value) ==
    IF \E i \in 1..Len(params) : params[i][1] = name
    THEN LET first == CHOOSE i \in 1..Len(params) :
                          /\ params[i][1] = name
                          /\ \A j \in 1..(i - 1) : params[j][1] # name
             tagged == [i \in 1..Len(params) |->
                           IF i = first THEN <<name, value, TRUE>>
                           ELSE <<params[i][1], params[i][2], params[i][1] # name>>]
             kept == SelectSeq(tagged, LAMBDA p : p[3])
         IN  [i \in 1..Len(kept) |-> <<kept[i][1], kept[i][2]>>]
    ELSE Append(params, <<name, value>>)

\* URLSearchParams.prototype.toString
ParamsToString(params) ==
    JoinStrings([i \in 1..Len(params) |->
                     FormEncode(params[i][1]) \o "=" \o FormEncode(params[i][2])], "&")

(***************************************************************************)
(* client.ts: the request dispatcher                                       *)
(***************************************************************************)

NoHeaders == [h \in {} |-> ""]

\* RequestInit = {} : no method, no body, no headers
NoOptions == [method |-> Undefined, body |-> Undefined, headers |-> NoHeaders]

Options(method, body, headers) == [method |-> method, body |-> body, headers |-> headers]

\* get baseUrl()
baseUrl(self) == self.config.apiUrl \o "/api/link"

\* The header that carries the current workspace, attached by the dispatcher
WorkspaceHeader(self) ==
    IF self.workspaceId.def THEN ("X-Workspace-Id" :> self.workspaceId.v) ELSE NoHeaders

\* request(endpoint, options): the call it makes to fetch(url, init) and the
\* timer it arms with setTimeout(() => controller.abort(), config.timeout)
request(self, endpoint, options) ==
    [handler |-> "request",
     url     |-> IF startsWith(endpoint, "http") THEN endpoint
                 ELSE self.config.apiUrl \o endpoint,
     init    |-> TRUE,
     method  |-> options.method,
     body    |-> options.body,
     signal  |-> TRUE,
     headers |-> options.headers @@ WorkspaceHeader(self)
                   @@ ("Content-Type" :> "application/json")
                   @@ ("X-API-Key" :> self.config.apiKey),
     timer   |-> Some(self.config.timeout)]

(***************************************************************************)
(* client.ts: the public operations.  Each takes the client (its config    *)
(* and current workspace) and the arguments of the call, and yields the    *)
(* call to fetch() that it makes.                                          *)
(***************************************************************************)

\* Math.min
Min(x, y) == IF x <= y THEN x ELSE y

\* getLinks passing the limit through without the cap of 100
getLinksNoClamp(self, a) ==
    LET page == IF a.page.def THEN a.page.v ELSE 1
        limit == IF a.limit.def THEN a.limit.v ELSE 20
        params == <<<<"page", ToString(page)>>, <<"limit", ToString(limit)>>>>
    IN  request(self, "/api/link?" \o ParamsToString(params), NoOptions)

getLinks(self, a) ==
    LET page == IF a.page.def THEN a.page.v ELSE 1
        limit == IF a.limit.def THEN a.limit.v ELSE 20
        params == <<<<"page", ToString(page)>>, <<"limit", ToString(Min(limit, 100))>>>>
    IN  request(self, "/api/link?" \o ParamsToString(params), NoOptions)

\* checkAvailability calls fetch(url) itself, with no init object and no timer
\* checkAvailability going through request() like the other operations
checkAvailabilityViaRequest(self, a) ==
    request(self, "/api/link/" \o a.id \o "/availability", NoOptions)

checkAvailability(self, a) ==
    [handler |-> "bare",
     url     |-> baseUrl(self) \o "/" \o a.id \o "/availability",
     init    |-> FALSE,
     method  |-> Undefined,
     body    |-> Undefined,
     signal  |-> FALSE,
     headers |-> NoHeaders,
     timer   |-> Undefined]

\* createLink leaving the X-Source header out when no source is given
createLinkNoDefaultSource(self, a) ==
    request(self, "/api/link",
            Options(Some("POST"), Some(JSON_stringify(a.data)),
                    IF a.source.def THEN ("X-Source" :> a.source.v) ELSE NoHeaders))

createLink(self, a) ==
    LET source == IF a.source.def THEN a.source.v ELSE "api" IN
    request(self, "/api/link",
            Options(Some("POST"), Some(JSON_stringify(a.data)), ("X-Source" :> source)))

\* uploadOgImage calls fetch(url, init) itself, with its own controller and timer
uploadOgImage(self, a) ==
    LET filename == IF a.filename.def THEN a.filename.v ELSE "og-image" IN
    [handler |-> "upload",
     url     |-> self.config.apiUrl \o "/api/manager/link/" \o a.id \o "/og-image",
     init    |-> TRUE,
     method  |-> Some("POST"),
     body    |-> Some("FormData{file=" \o filename \o "}"),
     signal  |-> TRUE,
     headers |-> ("X-API-Key" :> self.config.apiKey),
     timer   |-> Some(self.config.timeout)]

\* QRCodeOptions with no member set, which is also what {...undefined} yields
NoQRCodeOptions ==
    [width |-> Undefined, margin |-> Undefined, darkColor |-> Undefined,
     lightColor |-> Undefined, errorCorrectionLevel |-> Undefined, format |-> Undefined]

getQRCode(self, a) ==
    LET o  == IF a.options.def THEN a.options.v ELSE NoQRCodeOptions
        p0 == <<>>
        p1 == IF o.width.def /\ o.width.v # 0
              THEN ParamsSet(p0, "width", ToString(o.width.v)) ELSE p0
        p2 == IF o.margin.def
              THEN ParamsSet(p1, "margin", ToString(o.margin.v)) ELSE p1
        p3 == IF o.darkColor.def /\ o.darkColor.v # ""
              THEN ParamsSet(p2, "darkColor", o.darkColor.v) ELSE p2
        p4 == IF o.lightColor.def /\ o.lightColor.v # ""
              THEN ParamsSet(p3, "lightColor", o.lightColor.v) ELSE p3
        p5 == IF o.errorCorrectionLevel.def /\ o.errorCorrectionLevel.v # ""
              THEN ParamsSet(p4, "errorCorrectionLevel", o.errorCorrectionLevel.v) ELSE p4
        p6 == IF o.format.def /\ o.format.v # ""
              THEN ParamsSet(p5, "format", o.format.v) ELSE p5
        queryString == ParamsToString(p6)
    IN  request(self,
                "/api/link/" \o a.id \o "/qrcode"
                    \o (IF queryString # "" THEN "?" \o queryString ELSE ""),
                NoOptions)

\* getQRCodePng spreading the caller's options over the format
getQRCodePngCallerFormat(self, a) ==
    LET o == IF a.options.def THEN a.options.v ELSE NoQRCodeOptions IN
    getQRCode(self, [a EXCEPT !.options =
        Some([o EXCEPT !.format = IF o.format.def THEN o.format ELSE Some("png")])])

getQRCodePng(self, a) ==
    LET o == IF a.options.def THEN a.options.v ELSE NoQRCodeOptions IN
    getQRCode(self, [a EXCEPT !.options = Some([o EXCEPT !.format = Some("png")])])

getQRCodeSvg(self, a) ==
    LET o == IF a.options.def THEN a.options.v ELSE NoQRCodeOptions IN
    getQRCode(self, [a EXCEPT !.options = Some([o EXCEPT !.format = Some("svg")])])

getWebhookLogs(self, a) ==
    LET page == IF a.page.def THEN a.page.v ELSE 1
        limit == IF a.limit.def THEN a.limit.v ELSE 20
        p0 == <<<<"page", ToString(page)>>, <<"limit", ToString(Min(limit, 100))>>>>
        params == IF a.success.def
                  THEN ParamsSet(p0, "success", IF a.success.v THEN "true" ELSE "false")
                  ELSE p0
    IN  request(self, "/api/manager/webhook/" \o a.id \o "/logs?" \o ParamsToString(params),
                NoOptions)

\* getLinkById with an endpoint of its own
getLinkByIdOwnEndpoint(self, a) ==
    request(self, "/api/link/by-id/" \o a.id, NoOptions)

getLinkById(self, a) ==
    request(self, "/api/link/" \o a.id, NoOptions)

\* getLinkByKey handing a key that looks like a URL to request() as it is
getLinkByKeyAbsolute(self, a) ==
    request(self, IF startsWith(a.id, "http") THEN a.id ELSE "/api/link/" \o a.id, NoOptions)

getLinkByKey(self, a) ==
    request(self, "/api/link/" \o a.id, NoOptions)

updateLink(self, a) ==
    request(self, "/api/link/" \o a.id,
            Options(Some("PATCH"), Some(JSON_stringify(a.data)), NoHeaders))

deleteLink(self, a) ==
    request(self, "/api/link/" \o a.id,
            Options(Some("DELETE"), Undefined, NoHeaders))

deleteOgImage(self, a) ==
    request(self, "/api/manager/link/" \o a.id \o "/og-image",
            Options(Some("DELETE"), Undefined, NoHeaders))

getLinkRules(self, a) ==
    request(self, "/api/link/" \o a.id \o "/rules", NoOptions)

createLinkRule(self, a) ==
    request(self, "/api/link/" \o a.id \o "/rules",
            Options(Some("POST"), Some(JSON_stringify(a.data)), NoHeaders))

updateLinkRule(self, a) ==
    request(self, "/api/link/" \o a.id \o "/rules/" \o a.ruleId,
            Options(Some("PATCH"), Some(JSON_stringify(a.data)), NoHeaders))

deleteLinkRule(self, a) ==
    request(self, "/api/link/" \o a.id \o "/rules/" \o a.ruleId,
            Options(Some("DELETE"), Undefined, NoHeaders))

reorderLinkRules(self, a) ==
    request(self, "/api/link/" \o a.id \o "/rules/reorder",
            Options(Some("PUT"), Some(JSON_stringify(JObj(<<Prop("ruleIds", Some(JArr(a.ruleIds)))>>))), NoHeaders))

getWebhooks(self, a) ==
    request(self, "/api/manager/webhook", NoOptions)

getWebhookById(self, a) ==
    request(self, "/api/manager/webhook/" \o a.id, NoOptions)

createWebhook(self, a) ==
    request(self, "/api/manager/webhook",
            Options(Some("POST"), Some(JSON_stringify(a.data)), NoHeaders))

updateWebhook(self, a) ==
    request(self, "/api/manager/webhook/" \o a.id,
            Options(Some("PATCH"), Some(JSON_stringify(a.data)), NoHeaders))

deleteWebhook(self, a) ==
    request(self, "/api/manager/webhook/" \o a.id,
            Options(Some("DELETE"), Undefined, NoHeaders))

enableWebhook(self, a) ==
    request(self, "/api/manager/webhook/" \o a.id \o "/enable",
            Options(Some("POST"), Undefined, NoHeaders))

disableWebhook(self, a) ==
    request(self, "/api/manager/webhook/" \o a.id \o "/disable",
            Options(Some("POST"), Undefined, NoHeaders))

testWebhook(self, a) ==
    request(self, "/api/manager/webhook/" \o a.id \o "/test",
            Options(Some("POST"), Undefined, NoHeaders))

regenerateWebhookSecret(self, a) ==
    request(self, "/api/manager/webhook/" \o a.id \o "/regenerate-secret",
            Options(Some("POST"), Undefined, NoHeaders))

getWebhookSecret(self, a) ==
    request(self, "/api/manager/webhook/" \o a.id \o "/secret", NoOptions)

getWebhookStats(self, a) ==
    request(self, "/api/manager/webhook/stats", NoOptions)

listPixelPresets(self, a) ==
    request(self, "/api/manager/pixel-preset", NoOptions)

getPixelPreset(self, a) ==
    request(self, "/api/manager/pixel-preset/" \o a.id, NoOptions)

createPixelPreset(self, a) ==
    request(self, "/api/manager/pixel-preset",
            Options(Some("POST"), Some(JSON_stringify(a.data)), NoHeaders))

updatePixelPreset(self, a) ==
    request(self, "/api/manager/pixel-preset/" \o a.id,
            Options(Some("PATCH"), Some(JSON_stringify(a.data)), NoHeaders))

deletePixelPreset(self, a) ==
    request(self, "/api/manager/pixel-preset/" \o a.id,
            Options(Some("DELETE"), Undefined, NoHeaders))

listDomains(self, a) ==
    request(self, "/api/domains", NoOptions)

getDomain(self, a) ==
    request(self, "/api/domains/" \o a.id, NoOptions)

createDomain(self, a) ==
    request(self, "/api/domains",
            Options(Some("POST"), Some(JSON_stringify(a.data)), NoHeaders))

verifyDomain(self, a) ==
    request(self, "/api/domains/" \o a.id \o "/verify",
            Options(Some("POST"), Undefined, NoHeaders))

changeDomainVerificationMethod(self, a) ==
    request(self, "/api/domains/" \o a.id \o "/verification-method",
            Options(Some("PATCH"), Some(JSON_stringify(JObj(<<Prop("method", Some(JStr(a.method)))>>))), NoHeaders))

deleteDomain(self, a) ==
    request(self, "/api/domains/" \o a.id,
            Options(Some("DELETE"), Undefined, NoHeaders))

listBioPages(self, a) ==
    request(self, "/api/manager/profile/bio-pages", NoOptions)

getBioPage(self, a) ==
    request(self, "/api/manager/profile/bio-pages/" \o a.id, NoOptions)

createBioPage(self, a) ==
    request(self, "/api/manager/profile/bio-pages",
            Options(Some("POST"), Some(JSON_stringify(a.data)), NoHeaders))

updateBioPage(self, a) ==
    request(self, "/api/manager/profile/bio-pages/" \o a.id,
            Options(Some("PATCH"), Some(JSON_stringify(a.data)), NoHeaders))

deleteBioPage(self, a) ==
    request(self, "/api/manager/profile/bio-pages/" \o a.id,
            Options(Some("DELETE"), Undefined, NoHeaders))

setBioPageAsDefault(self, a) ==
    request(self, "/api/manager/profile/bio-pages/" \o a.id \o "/set-default",
            Options(Some("PATCH"), Undefined, NoHeaders))

attachCustomDomainToBioPage(self, a) ==
    request(self, "/api/manager/profile/bio-pages/" \o a.id \o "/custom-domain",
            Options(Some("PATCH"), Some(JSON_stringify(a.data)), NoHeaders))

\* The public operations of HoulaClient
Ops ==
    {"getLinks", "checkAvailability", "createLink",
     "uploadOgImage", "getQRCode", "getQRCodePng",
     "getQRCodeSvg", "getWebhookLogs", "getLinkById",
     "getLinkByKey", "updateLink", "deleteLink",
     "deleteOgImage", "getLinkRules", "createLinkRule",
     "updateLinkRule", "deleteLinkRule", "reorderLinkRules",
     "getWebhooks", "getWebhookById", "createWebhook",
     "updateWebhook", "deleteWebhook", "enableWebhook",
     "disableWebhook", "testWebhook", "regenerateWebhookSecret",
     "getWebhookSecret", "getWebhookStats", "listPixelPresets",
     "getPixelPreset", "createPixelPreset", "updatePixelPreset",
     "deletePixelPreset", "listDomains", "getDomain",
     "createDomain", "verifyDomain", "changeDomainVerificationMethod",
     "deleteDomain", "listBioPages", "getBioPage",
     "createBioPage", "updateBioPage", "deleteBioPage",
     "setBioPageAsDefault", "attachCustomDomainToBioPage"}

\* client[op](...args)
Invoke(op, self, a) ==
    CASE op = "getLinks" -> getLinks(self, a)
      [] op = "checkAvailability" -> checkAvailability(self, a)
      [] op = "createLink" -> createLink(self, a)
      [] op = "uploadOgImage" -> uploadOgImage(self, a)
      [] op = "getQRCode" -> getQRCode(self, a)
      [] op = "getQRCodePng" -> getQRCodePng(self, a)
      [] op = "getQRCodeSvg" -> getQRCodeSvg(self, a)
      [] op = "getWebhookLogs" -> getWebhookLogs(self, a)
      [] op = "getLinkById" -> getLinkById(self, a)
      [] op = "getLinkByKey" -> getLinkByKey(self, a)
      [] op = "updateLink" -> updateLink(self, a)
      [] op = "deleteLink" -> deleteLink(self, a)
      [] op = "deleteOgImage" -> deleteOgImage(self, a)
      [] op = "getLinkRules" -> getLinkRules(self, a)
      [] op = "createLinkRule" -> createLinkRule(self, a)
      [] op = "updateLinkRule" -> updateLinkRule(self, a)
      [] op = "deleteLinkRule" -> deleteLinkRule(self, a)
      [] op = "reorderLinkRules" -> reorderLinkRules(self, a)
      [] op = "getWebhooks" -> getWebhooks(self, a)
      [] op = "getWebhookById" -> getWebhookById(self, a)
      [] op = "createWebhook" -> createWebhook(self, a)
      [] op = "updateWebhook" -> updateWebhook(self, a)
      [] op = "deleteWebhook" -> deleteWebhook(self, a)
      [] op = "enableWebhook" -> enableWebhook(self, a)
      [] op = "disableWebhook" -> disableWebhook(self, a)
      [] op = "testWebhook" -> testWebhook(self, a)
      [] op = "regenerateWebhookSecret" -> regenerateWebhookSecret(self, a)
      [] op = "getWebhookSecret" -> getWebhookSecret(self, a)
      [] op = "getWebhookStats" -> getWebhookStats(self, a)
      [] op = "listPixelPresets" -> listPixelPresets(self, a)
      [] op = "getPixelPreset" -> getPixelPreset(self, a)
      [] op = "createPixelPreset" -> createPixelPreset(self, a)
      [] op = "updatePixelPreset" -> updatePixelPreset(self, a)
      [] op = "deletePixelPreset" -> deletePixelPreset(self, a)
      [] op = "listDomains" -> listDomains(self, a)
      [] op = "getDomain" -> getDomain(self, a)
      [] op = "createDomain" -> createDomain(self, a)
      [] op = "verifyDomain" -> verifyDomain(self, a)
      [] op = "changeDomainVerificationMethod" -> changeDomainVerificationMethod(self, a)
      [] op = "deleteDomain" -> deleteDomain(self, a)
      [] op = "listBioPages" -> listBioPages(self, a)
      [] op = "getBioPage" -> getBioPage(self, a)
      [] op = "createBioPage" -> createBioPage(self, a)
      [] op = "updateBioPage" -> updateBioPage(self, a)
      [] op = "deleteBioPage" -> deleteBioPage(self, a)
      [] op = "setBioPageAsDefault" -> setBioPageAsDefault(self, a)
      [] op = "attachCustomDomainToBioPage" -> attachCustomDomainToBioPage(self, a)

(***************************************************************************)
(* client.ts: what happens to a call after fetch() has been called         *)
(***************************************************************************)

\* Response.ok
ok(response) == response.status >= 200 /\ response.status <= 299

AbortError == [name |-> "AbortError", message |-> "This operation was aborted"]

\* httpError falling back to the status text whenever there is no message
httpErrorStatusText(response, parsed) ==
    LET error == IF parsed.ok THEN parsed.value
                 ELSE JObj(<<Prop("message", Some(JStr(response.statusText)))>>)
    IN  IF error.t = "null"
        THEN [name |-> "TypeError",
              message |-> "Cannot read properties of null (reading 'message')"]
        ELSE LET message == GetProp(error, "message") IN
             IF Truthy(message)
             THEN [name |-> "Error", message |-> ToJsString(message.v)]
             ELSE [name |-> "Error", message |-> response.statusText]

\* if (!response.ok) { ... }: the error thrown for a non-2xx response, given
\* how response.json() settled (parsed.ok with the value, or a rejection)
httpError(response, parsed) ==
    LET error == IF parsed.ok THEN parsed.value
                 ELSE JObj(<<Prop("message", Some(JStr(response.statusText)))>>)
    IN  IF error.t = "null"
        THEN [name |-> "TypeError",
              message |-> "Cannot read properties of null (reading 'message')"]
        ELSE LET message == GetProp(error, "message") IN
             IF Truthy(message)
             THEN [name |-> "Error", message |-> ToJsString(message.v)]
             ELSE [name |-> "Error", message |-> "HTTP " \o ToString(response.status)]

NoResponse == [status |-> 0, statusText |-> ""]

\* response.json() has not settled
NotRead == [read |-> FALSE]

Pending == [state |-> "pending"]

Resolved(value) == [state |-> "resolved", value |-> value]

Rejected(error) == [state |-> "rejected", error |-> error]

\* What an operation does with the value its request() call resolved with:
\* deleteOgImage, deletePixelPreset and deleteBioPage are Promise<void>, they
\* await the call and return nothing; the others return the promise itself
VoidOps == {"deleteOgImage", "deletePixelPreset", "deleteBioPage"}

JUndefined == [t |-> "undefined"]

Result(op, value) == IF op \in VoidOps THEN JUndefined ELSE value

\* The promise settles and the timer is left armed, as without the finally block
SettleKeepTimer(c, outcome) == [c EXCEPT !.pc = "done", !.outcome = outcome]

\* The promise returned by the operation settles; the finally block of
\* request() and uploadOgImage() has cleared the timer with clearTimeout
Settle(c, outcome) ==
    [c EXCEPT !.pc = "done",
              !.outcome = outcome,
              !.timer = IF @ = "armed" THEN "cleared" ELSE @]

\* await fetch(...) returned a response.  request() and uploadOgImage() await
\* response.json() under the timer for a non-2xx response, and for a 2xx
\* response return the promise of response.json() and leave the try block;
\* checkAvailability() awaits response.json() whatever the status
OnResponse(c, response) ==
    IF c.req.handler = "bare"
    THEN [c EXCEPT !.pc = "anyBody", !.response = response]
    ELSE IF ~ok(response)
    THEN [c EXCEPT !.pc = "errBody", !.response = response]
    ELSE [c EXCEPT !.pc = "okBody", !.response = response,
                   !.timer = IF @ = "armed" THEN "cleared" ELSE @]

\* response.json() settled, and the operation drops the parsed value
OnBodyDiscard(c, parsed) ==
    LET d == [c EXCEPT !.body = parsed] IN
    IF c.pc = "errBody"
    THEN Settle(d, Rejected(httpError(c.response, parsed)))
    ELSE IF parsed.ok
    THEN Settle(d, Resolved(JUndefined))
    ELSE Settle(d, Rejected(parsed.error))

\* response.json() settled, and the operations that return nothing do not
\* look at how
OnBodyVoidUnread(c, parsed) ==
    LET d == [c EXCEPT !.body = parsed] IN
    IF c.pc = "errBody"
    THEN Settle(d, Rejected(httpError(c.response, parsed)))
    ELSE IF c.op \in VoidOps
    THEN Settle(d, Resolved(JUndefined))
    ELSE IF parsed.ok
    THEN Settle(d, Resolved(Result(c.op, parsed.value)))
    ELSE Settle(d, Rejected(parsed.error))

\* response.json() settled
OnBody(c, parsed) ==
    LET d == [c EXCEPT !.body = parsed] IN
    IF c.pc = "errBody"
    THEN Settle(d, Rejected(httpError(c.response, parsed)))
    ELSE IF parsed.ok
    THEN Settle(d, Resolved(Result(c.op, parsed.value)))
    ELSE Settle(d, Rejected(parsed.error))

\* await fetch(...) rejected and the error is wrapped in a new one
OnFetchErrorWrapped(c, e) ==
    Settle([c EXCEPT !.failure = e],
           Rejected([name |-> "Error", message |-> "Request failed: " \o e.message]))

\* await fetch(...) rejected and the request is sent once more
OnFetchErrorRetry(c, e) ==
    IF c.fetches < 2
    THEN [c EXCEPT !.failure = e, !.fetches = @ + 1]
    ELSE Settle([c EXCEPT !.failure = e], Rejected(e))

\* await fetch(...) rejected with error e: nothing catches it, the finally
\* block runs and the call rejects with e
OnFetchError(c, e) == Settle([c EXCEPT !.failure = e], Rejected(e))

\* The timer ran out: controller.abort().  A pending fetch() rejects with the
\* abort error; a pending response.json() of a non-2xx response rejects with
\* it too, and that rejection is handled by .catch(() => ({ message: statusText }))
OnTimeout(c) ==
    IF c.pc = "fetch"
    THEN [OnFetchError(c, AbortError) EXCEPT !.timer = "fired"]
    ELSE LET aborted == [ok |-> FALSE, error |-> AbortError] IN
         [Settle(c, Rejected(httpError(c.response, aborted)))
             EXCEPT !.timer = "fired", !.body = aborted]

(***************************************************************************)
(* The server and the network                                              *)
(***************************************************************************)

Responses ==
    {[status |-> 200, statusText |-> "OK"],
     [status |-> 404, statusText |-> "Not Found"],
     [status |-> 500, statusText |-> "Internal Server Error"],
     [status |-> 503, statusText |-> ""]}

NetworkError == [name |-> "TypeError", message |-> "fetch failed"]

DnsError == [name |-> "Error", message |-> "getaddrinfo ENOTFOUND hou.la"]

\* The errors fetch() can reject with when the transport fails
TransportErrors == {NetworkError, DnsError}

ParseError == [name |-> "SyntaxError", message |-> "Unexpected end of JSON input"]

Bodies ==
    {JNull,
     JObj(<<Prop("available", Some(JBool(TRUE)))>>),
     JObj(<<Prop("message", Some(JStr("")))>>),
     JObj(<<Prop("message", Some(JStr("Link not found")))>>),
     JObj(<<Prop("message", Some(JArr(<<"url must be a URL address", "key is too short">>)))>>)}

\* The ways response.json() can settle
ParseResults ==
    {[ok |-> TRUE, value |-> b] : b \in Bodies}
        \cup {[ok |-> FALSE, error |-> e] : e \in {ParseError, NetworkError}}

(***************************************************************************)
(* Inputs of the constructor                                               *)
(***************************************************************************)

ApiKeys ==
    {"", "invalid_key", "sk_test_12345678901234567890123456", "houla_sk",
     "Houla_sk_test_key", " houla_sk_test_key", "xhoula_sk_test_key",
     "houla_sk_", "houla_sk_live_key_12345678901234567890",
     "houla_sk_test_key_12345678901234567890"}

ApiUrls == {Undefined, Some(""), Some("https://api.test.com")}

Timeouts == {Undefined, Some(0), Some(5000), Some(-1)}

WorkspaceIds == {Undefined, Some("ws-uuid-001")}

ConfigInputs ==
    [apiKey : ApiKeys, apiUrl : ApiUrls, timeout : Timeouts, workspaceId : WorkspaceIds]

NoClient == [constructed |-> FALSE]

NoError == [name |-> "none"]

\* new HoulaClient(config) / createHoulaClient(config)
Construct ==
    /\ ~client.constructed
    /\ thrown = NoError
    /\ LET r == createConfig(cfgIn) IN
         IF r.ok
         THEN /\ client' = [constructed |-> TRUE, config |-> r.value]
              /\ workspaceId' = r.value.workspaceId
              /\ UNCHANGED thrown
         ELSE /\ thrown' = r.error
              /\ UNCHANGED <<client, workspaceId>>
    /\ UNCHANGED <<cfgIn, calls>>

InitConfig ==
    /\ cfgIn \in ConfigInputs
    /\ client = NoClient
    /\ thrown = NoError
    /\ workspaceId = Undefined
    /\ calls = <<>>

NextConfig == Construct

SpecConfig == InitConfig /\ [][NextConfig]_vars

(***************************************************************************)
(* The client in use                                                       *)
(***************************************************************************)

ValidKey == "houla_sk_test_key_12345678901234567890"

ClientConfigs ==
    {[apiKey |-> ValidKey, apiUrl |-> Undefined, timeout |-> Undefined,
      workspaceId |-> Undefined],
     [apiKey |-> "houla_sk_live_key_12345678901234567890",
      apiUrl |-> Some("https://api.test.com"), timeout |-> Some(5000),
      workspaceId |-> Some("ws-uuid-001")],
     [apiKey |-> "", apiUrl |-> Undefined, timeout |-> Undefined,
      workspaceId |-> Undefined],
     [apiKey |-> "invalid_key", apiUrl |-> Some("https://api.test.com"),
      timeout |-> Some(5000), workspaceId |-> Undefined]}

SettableWorkspaceIds == {Undefined, Some("ws-uuid-001"), Some("ws-uuid-002")}

BaseArgs ==
    [id |-> "abc123", ruleId |-> "rule-1", page |-> Undefined, limit |-> Undefined,
     success |-> Undefined, source |-> Undefined,
     data |-> JObj(<<Prop("url", Some(JStr("https://example.com")))>>),
     options |-> Undefined, ruleIds |-> <<"rule-2", "rule-1">>,
     method |-> "dns_txt", filename |-> Undefined]

ArgsOf(op) ==
    CASE op = "createLink" -> {BaseArgs, [BaseArgs EXCEPT !.source = Some("extension")]}
      [] op = "getLinks" -> {BaseArgs, [BaseArgs EXCEPT !.page = Some(0), !.limit = Some(500)]}
      [] OTHER -> {BaseArgs}

\* The client object as the operations see it
Self == [config |-> client.config, workspaceId |-> workspaceId]

NewCall(op, a) ==
    LET req == Invoke(op, Self, a) IN
    [op |-> op, args |-> a, req |-> req, pc |-> "fetch",
     timer |-> IF req.timer.def THEN "armed" ELSE "none",
     fetches |-> 1, failure |-> NoError,
     response |-> NoResponse, body |-> NotRead, outcome |-> Pending]

\* client.setWorkspaceId(id)
SetWorkspaceId(id) ==
    /\ client.constructed
    /\ workspaceId' = id
    /\ UNCHANGED <<cfgIn, client, thrown, calls>>

\* The caller invokes an operation once its previous call has settled; the
\* model keeps the latest call only
StartCall(op, a) ==
    /\ client.constructed
    /\ \A i \in DOMAIN calls : calls[i].pc = "done"
    /\ calls' = <<NewCall(op, a)>>
    /\ UNCHANGED <<cfgIn, client, thrown, workspaceId>>

\* fetch() resolves with the status line and headers of the response
FetchResolves(i, response) ==
    /\ calls[i].pc = "fetch"
    /\ calls' = [calls EXCEPT ![i] = OnResponse(@, response)]
    /\ UNCHANGED <<cfgIn, client, thrown, workspaceId>>

\* fetch() rejects: DNS failure, connection refused, ...
FetchRejects(i, e) ==
    /\ calls[i].pc = "fetch"
    /\ calls' = [calls EXCEPT ![i] = OnFetchError(@, e)]
    /\ UNCHANGED <<cfgIn, client, thrown, workspaceId>>

\* response.json() settles
BodySettles(i, parsed) ==
    /\ calls[i].pc \in {"okBody", "errBody", "anyBody"}
    /\ calls' = [calls EXCEPT ![i] = OnBody(@, parsed)]
    /\ UNCHANGED <<cfgIn, client, thrown, workspaceId>>

\* The timer of a call fires and its abort reaches every call in flight, as
\* with one AbortController shared by the client
TimerFiresShared(i) ==
    /\ calls[i].timer = "armed"
    /\ calls' = [j \in DOMAIN calls |->
                    IF calls[j].timer = "armed" THEN OnTimeout(calls[j]) ELSE calls[j]]
    /\ UNCHANGED <<cfgIn, client, thrown, workspaceId>>

\* The timer of a call fires and the client lowers its timeout for what follows
TimerFiresAdjustsTimeout(i) ==
    /\ calls[i].timer = "armed"
    /\ calls' = [calls EXCEPT ![i] = OnTimeout(@)]
    /\ client' = [client EXCEPT !.config.timeout = 1000]
    /\ UNCHANGED <<cfgIn, thrown, workspaceId>>

\* The timer of a call fires
TimerFires(i) ==
    /\ calls[i].timer = "armed"
    /\ calls' = [calls EXCEPT ![i] = OnTimeout(@)]
    /\ UNCHANGED <<cfgIn, client, thrown, workspaceId>>

Init ==
    /\ cfgIn \in ClientConfigs
    /\ client = NoClient
    /\ thrown = NoError
    /\ workspaceId = Undefined
    /\ calls = <<>>

Next ==
    \/ Construct
    \/ \E id \in SettableWorkspaceIds : SetWorkspaceId(id)
    \/ \E op \in Ops : \E a \in ArgsOf(op) : StartCall(op, a)
    \/ \E i \in DOMAIN calls : \E response \in Responses : FetchResolves(i, response)
    \/ \E i \in DOMAIN calls : \E e \in TransportErrors : FetchRejects(i, e)
    \/ \E i \in DOMAIN calls : \E parsed \in ParseResults : BodySettles(i, parsed)
    \/ \E i \in DOMAIN calls : TimerFires(i)

Spec == Init /\ [][Next]_vars

(***************************************************************************)
(* The requests the operations build, over a wider range of arguments      *)
(***************************************************************************)

\* DTOs: one field, a null-valued field, an undefined-valued field, no field,
\* falsy values
DtoUrlOnly == JObj(<<Prop("url", Some(JStr("https://example.com")))>>)

DtoNullField ==
    JObj(<<Prop("url", Some(JStr("https://example.com"))), Prop("facebookPixelId", Some(JNull)),
           Prop("key", Some(JStr("promo")))>>)

DtoUndefinedField ==
    JObj(<<Prop("title", Undefined), Prop("url", Some(JStr("https://example.com"))),
           Prop("gtmId", Undefined)>>)

DtoEmpty == JObj(<<>>)

DtoFalsy ==
    JObj(<<Prop("name", Some(JStr(""))), Prop("priority", Some(JNum(0))),
           Prop("isActive", Some(JBool(FALSE))), Prop("events", Some(JArr(<<"link.clicked">>)))>>)

Dtos == {DtoUrlOnly, DtoNullField, DtoUndefinedField, DtoEmpty, DtoFalsy}

DtoOps ==
    {"createLink", "updateLink", "createLinkRule", "updateLinkRule", "createWebhook",
     "updateWebhook", "createPixelPreset", "updatePixelPreset", "createDomain",
     "createBioPage", "updateBioPage", "attachCustomDomainToBioPage"}

SourceValues == {Undefined, Some("extension"), Some("app")}

RuleIdLists == {<<"rule-2", "rule-1">>, <<"rule-1", "rule-2">>, <<"rule-3">>}

VerificationMethods == {"dns_txt", "http_file"}

\* QRCodeOptions: none, each member alone, all of them, a smuggled format,
\* and the falsy values 0 and ""
QROptions(width, margin, darkColor, lightColor, errorCorrectionLevel, format) ==
    Some([width |-> width, margin |-> margin, darkColor |-> darkColor,
          lightColor |-> lightColor, errorCorrectionLevel |-> errorCorrectionLevel,
          format |-> format])

QROptionValues ==
    {Undefined,
     Some(NoQRCodeOptions),
     QROptions(Some(300), Undefined, Undefined, Undefined, Undefined, Undefined),
     QROptions(Undefined, Some(2), Undefined, Undefined, Undefined, Undefined),
     QROptions(Undefined, Undefined, Some("#ff0000"), Undefined, Undefined, Undefined),
     QROptions(Undefined, Undefined, Undefined, Some("#ffffff"), Undefined, Undefined),
     QROptions(Undefined, Undefined, Undefined, Undefined, Some("H"), Undefined),
     QROptions(Undefined, Undefined, Undefined, Undefined, Undefined, Some("svg")),
     QROptions(Undefined, Undefined, Undefined, Undefined, Undefined, Some("png")),
     QROptions(Some(512), Some(4), Some("#000000"), Some("#ffffff"), Some("M"), Some("svg")),
     QROptions(Some(512), Some(4), Some("#000000"), Some("#ffffff"), Some("M"), Some("png")),
     QROptions(Some(0), Some(0), Some(""), Some(""), Some(""), Some(""))}

\* Link ids and keys: a UUID-like id, a custom key, and strings shaped like a
\* URL and like a relative path
IdValues == {"abc123", "my-custom-key", "http://evil.example/x", "../admin"}

PageValues == {Undefined, Some(0), Some(1), Some(3)}

LimitValues ==
    {Undefined, Some(-5), Some(0), Some(1), Some(20), Some(99), Some(100), Some(101),
     Some(500)}

SuccessValues == {Undefined, Some(TRUE), Some(FALSE)}

BuildArgsOf(op) ==
    CASE op = "getLinks" ->
             {[BaseArgs EXCEPT !.page = p, !.limit = l] : p \in PageValues, l \in LimitValues}
      [] op = "getWebhookLogs" ->
             {[BaseArgs EXCEPT !.page = p, !.limit = l, !.success = s] :
                  p \in {Undefined, Some(0)}, l \in LimitValues, s \in SuccessValues}
      [] op = "createLink" ->
             {[BaseArgs EXCEPT !.data = d, !.source = s] : d \in Dtos, s \in SourceValues}
      [] op \in DtoOps \ {"createLink"} -> {[BaseArgs EXCEPT !.data = d] : d \in Dtos}
      [] op \in {"getQRCode", "getQRCodePng", "getQRCodeSvg"} ->
             {[BaseArgs EXCEPT !.options = o] : o \in QROptionValues}
      [] op = "reorderLinkRules" -> {[BaseArgs EXCEPT !.ruleIds = r] : r \in RuleIdLists}
      [] op = "changeDomainVerificationMethod" ->
             {[BaseArgs EXCEPT !.method = m] : m \in VerificationMethods}
      [] op \in {"getLinkById", "getLinkByKey", "checkAvailability", "uploadOgImage",
                 "deleteLink", "getLinkRules"} ->
             {[BaseArgs EXCEPT !.id = x] : x \in IdValues}
      [] OTHER -> ArgsOf(op)

BuildConfigs == {c \in ClientConfigs : createConfig(c).ok}

InitBuild ==
    /\ cfgIn \in BuildConfigs
    /\ client = NoClient
    /\ thrown = NoError
    /\ workspaceId = Undefined
    /\ calls = <<>>

NextBuild ==
    \/ Construct
    \/ \E op \in Ops : \E a \in BuildArgsOf(op) : StartCall(op, a)
    \/ \E i \in DOMAIN calls : \E e \in TransportErrors : FetchRejects(i, e)

SpecBuild == InitBuild /\ [][NextBuild]_vars

(***************************************************************************)
(* Several calls in flight on one client                                   *)
(***************************************************************************)

\* The number of calls the caller issues without awaiting them
MaxCalls == 2

ConcOps == {"getLinks", "checkAvailability"}

ConcResponses ==
    {[status |-> 200, statusText |-> "OK"],
     [status |-> 500, statusText |-> "Internal Server Error"]}

ConcParseResults ==
    {[ok |-> TRUE, value |-> JObj(<<Prop("available", Some(JBool(TRUE)))>>)],
     [ok |-> FALSE, error |-> ParseError]}

\* A public method is called while earlier calls are still pending: it builds
\* its own request, AbortController and timer and waits for nothing
StartConcurrent(op, a) ==
    /\ client.constructed
    /\ Len(calls) < MaxCalls
    /\ calls' = Append(calls, NewCall(op, a))
    /\ UNCHANGED <<cfgIn, client, thrown, workspaceId>>

InitConc ==
    /\ cfgIn \in {c \in BuildConfigs : ~c.workspaceId.def}
    /\ client = NoClient
    /\ thrown = NoError
    /\ workspaceId = Undefined
    /\ calls = <<>>

NextConc ==
    \/ Construct
    \/ \E op \in ConcOps : StartConcurrent(op, BaseArgs)
    \/ \E i \in DOMAIN calls : \E response \in ConcResponses : FetchResolves(i, response)
    \/ \E i \in DOMAIN calls : FetchRejects(i, NetworkError)
    \/ \E i \in DOMAIN calls : \E parsed \in ConcParseResults : BodySettles(i, parsed)
    \/ \E i \in DOMAIN calls : TimerFires(i)

SpecConc == InitConc /\ [][NextConc]_vars

\* Calls in flight when nothing is assumed of the server and the network but
\* every armed timer that stays armed fires: setTimeout(abort, timeout)
TimerFairness == \A i \in 1..MaxCalls : WF_vars(i \in DOMAIN calls /\ TimerFires(i))

SpecLive == InitConc /\ [][NextConc]_vars /\ TimerFairness

\* Several calls in flight while the caller changes the current workspace
ConcWorkspaceIds == {Undefined, Some("ws-uuid-002")}

NextWorkspace ==
    \/ Construct
    \/ \E id \in ConcWorkspaceIds : SetWorkspaceId(id)
    \/ \E op \in ConcOps : StartConcurrent(op, BaseArgs)
    \/ \E i \in DOMAIN calls : \E response \in ConcResponses : FetchResolves(i, response)
    \/ \E i \in DOMAIN calls : FetchRejects(i, NetworkError)
    \/ \E i \in DOMAIN calls : \E parsed \in ConcParseResults : BodySettles(i, parsed)
    \/ \E i \in DOMAIN calls : TimerFires(i)

SpecWorkspace == InitConc /\ [][NextWorkspace]_vars

(***************************************************************************)
(* Properties                                                              *)
(***************************************************************************)

\* s.includes(sub)
Contains(s, sub) ==
    \E i \in 1..(Len(s) - Len(sub) + 1) : SubSeq(s, i, i + Len(sub) - 1) = sub

\* The key begins with the nine characters h o u l a _ s k _
HasKeyPrefix(key) ==
    /\ Len(key) >= 9
    /\ \A i \in 1..9 : SubSeq(key, i, i) = SubSeq("houla_sk_", i, i)

Calls == {calls[i] : i \in DOMAIN calls}

\* The calls that went through request() or uploadOgImage() and were answered
\* with a non-2xx response
NonOkCalls == {c \in Calls : c.response # NoResponse /\ ~ok(c.response)}

\* C1: construction fails if and only if apiKey is empty or does not start
\* with "houla_sk_"; a key with the prefix is accepted whatever the other
\* fields of the configuration are.
C1_ConstructionFailsIffBadKey ==
    /\ thrown # NoError => (cfgIn.apiKey = "" \/ ~HasKeyPrefix(cfgIn.apiKey))
    /\ client.constructed => (cfgIn.apiKey # "" /\ HasKeyPrefix(cfgIn.apiKey))

C1_Witness ==
    /\ client.constructed
    /\ cfgIn.apiKey = "houla_sk_live_key_12345678901234567890"
    /\ cfgIn.apiUrl = Some("")
    /\ cfgIn.timeout = Some(-1)

\* C2: a configuration error is thrown by the constructor itself, before any
\* request: "apiKey is required" (and not the format error) for an empty key,
\* "Invalid API key format" for a non-empty key without the prefix; then no
\* client exists and no request has been sent.
C2_ConfigErrorsBeforeAnyRequest ==
    /\ cfgIn.apiKey = "" =>
          /\ ~client.constructed
          /\ calls = <<>>
          /\ thrown # NoError =>
                /\ Contains(thrown.message, "apiKey is required")
                /\ ~Contains(thrown.message, "Invalid API key format")
    /\ (cfgIn.apiKey # "" /\ ~HasKeyPrefix(cfgIn.apiKey)) =>
          /\ ~client.constructed
          /\ calls = <<>>
          /\ thrown # NoError => Contains(thrown.message, "Invalid API key format")
    /\ thrown # NoError => (~client.constructed /\ calls = <<>>)

C2_Witness ==
    /\ cfgIn.apiKey = ""
    /\ thrown # NoError
    /\ ~client.constructed
    /\ calls = <<>>

\* C3 as stated: for a valid key the record holds the supplied apiUrl and
\* timeout, or the defaults when they are omitted, and apiKey and workspaceId
\* unchanged.
C3_SuppliedOrDefaultWhenOmitted ==
    client.constructed =>
        /\ client.config.apiKey = cfgIn.apiKey
        /\ client.config.workspaceId = cfgIn.workspaceId
        /\ client.config.apiUrl =
              (IF cfgIn.apiUrl.def THEN cfgIn.apiUrl.v ELSE "https://hou.la")
        /\ client.config.timeout =
              (IF cfgIn.timeout.def THEN cfgIn.timeout.v ELSE 30000)

C3_FilledConfig ==
    client.constructed =>
        /\ client.config.apiKey = cfgIn.apiKey
        /\ client.config.workspaceId = cfgIn.workspaceId
        /\ (cfgIn.apiUrl.def /\ cfgIn.apiUrl.v # "") => client.config.apiUrl = cfgIn.apiUrl.v
        /\ (~cfgIn.apiUrl.def \/ cfgIn.apiUrl.v = "") => client.config.apiUrl = "https://hou.la"
        /\ (cfgIn.timeout.def /\ cfgIn.timeout.v # 0) => client.config.timeout = cfgIn.timeout.v
        /\ (~cfgIn.timeout.def \/ cfgIn.timeout.v = 0) => client.config.timeout = 30000

\* C3 (amended): for a valid key the record holds the supplied apiUrl when it
\* is supplied and not empty and "https://hou.la" otherwise, the supplied
\* timeout when it is supplied and not 0 and 30000 otherwise, and apiKey and
\* workspaceId unchanged; the input object is never modified.
C3_DefaultsReplaceFalsyValues ==
    /\ []C3_FilledConfig
    /\ [][cfgIn' = cfgIn]_vars

C3_Witness ==
    /\ client.constructed
    /\ cfgIn.timeout = Some(0)
    /\ cfgIn.apiUrl = Some("")
    /\ client.config.timeout = 30000
    /\ client.config.apiUrl = "https://hou.la"

\* The message property of the parsed body of a call, when it is a non-empty string
HasStringMessage(c) ==
    /\ c.body # NotRead
    /\ c.body.ok
    /\ c.body.value.t = "obj"
    /\ GetProp(c.body.value, "message").def
    /\ GetProp(c.body.value, "message").v.t = "str"
    /\ GetProp(c.body.value, "message").v.s # ""

\* The parsed body of a call holds no message property, or an empty string
HasNoMessage(c) ==
    /\ c.body # NotRead
    /\ c.body.ok
    /\ c.body.value.t = "obj"
    /\ LET m == GetProp(c.body.value, "message") IN
         ~m.def \/ (m.v.t = "str" /\ m.v.s = "")

C5_ErrorCarriesStatus ==
    \A c \in NonOkCalls :
        (c.pc = "done" /\ c.outcome.state = "rejected") =>
            /\ "status" \in DOMAIN c.outcome.error
            /\ c.outcome.error.status = c.response.status

\* C6: every failure rejects the call; no call resolves with a value when the
\* server answered with a non-2xx status, when the transport failed, when the
\* timer aborted it or when the body could not be parsed.
C6_FailuresReject ==
    \A c \in Calls :
        (c.pc = "done" /\ c.outcome.state = "resolved") =>
            /\ c.response # NoResponse
            /\ ok(c.response)
            /\ c.body # NotRead
            /\ c.body.ok
            /\ c.timer # "fired"

\* C7: when the timer of a call expires while the request is pending, the
\* request is aborted and the call fails with the cancellation error; it
\* does not resolve with a value.
C7_TimeoutRejectsWithAbortError ==
    \A c \in Calls :
        c.timer = "fired" =>
            /\ c.pc = "done"
            /\ c.outcome.state = "rejected"
            /\ c.outcome.error.name = "AbortError"

\* C8: every request of every operation is sent with a cancellation signal
\* whose abort timer was armed for config.timeout milliseconds before the
\* request was dispatched.
C8_EveryRequestHasTimeout ==
    \A c \in Calls :
        /\ c.req.signal
        /\ c.req.timer = Some(client.config.timeout)
        /\ c.pc = "fetch" => c.timer = "armed"

\* C9: every request of every operation has the header X-API-Key equal to the
\* configured apiKey and the header Content-Type: application/json.
C9_EveryRequestHasStandardHeaders ==
    \A c \in Calls :
        /\ "X-API-Key" \in DOMAIN c.req.headers
        /\ c.req.headers["X-API-Key"] = client.config.apiKey
        /\ "Content-Type" \in DOMAIN c.req.headers
        /\ c.req.headers["Content-Type"] = "application/json"

\* A request is dispatched in this step
Dispatches == calls' # calls /\ calls' # <<>> /\ calls'[Len(calls')].pc = "fetch"

\* C10: a request issued after setWorkspaceId calls has the header
\* X-Workspace-Id with the value set last when that value is defined, and has
\* no X-Workspace-Id header when the last call cleared it.
C10_RequestsCarryCurrentWorkspace ==
    [][Dispatches =>
          LET headers == calls'[Len(calls')].req.headers IN
          IF workspaceId.def
          THEN /\ "X-Workspace-Id" \in DOMAIN headers
               /\ headers["X-Workspace-Id"] = workspaceId.v
          ELSE "X-Workspace-Id" \notin DOMAIN headers]_vars

\* C11: a client constructed with a workspaceId sends X-Workspace-Id with that
\* value on every request it issues; a client constructed without one, and
\* given none later, sends no X-Workspace-Id on any request.
C11_ConfiguredWorkspaceOnEveryRequest ==
    [][(Dispatches /\ workspaceId = client.config.workspaceId) =>
          LET headers == calls'[Len(calls')].req.headers IN
          IF client.config.workspaceId.def
          THEN /\ "X-Workspace-Id" \in DOMAIN headers
               /\ headers["X-Workspace-Id"] = client.config.workspaceId.v
          ELSE "X-Workspace-Id" \notin DOMAIN headers]_vars

\* Reading a URL back: the part after the first "?", the name=value pieces
\* of a query and the integer a decimal numeral denotes
IndexOf(s, ch) ==
    LET hits == {i \in 1..Len(s) : SubSeq(s, i, i) = ch} IN
    IF hits = {} THEN 0 ELSE CHOOSE i \in hits : \A j \in hits : i <= j

PathOf(url) ==
    IF IndexOf(url, "?") = 0 THEN url ELSE SubSeq(url, 1, IndexOf(url, "?") - 1)

QueryOf(url) ==
    IF IndexOf(url, "?") = 0 THEN "" ELSE SubSeq(url, IndexOf(url, "?") + 1, Len(url))

RECURSIVE SplitOn(_, _)
SplitOn(s, ch) ==
    IF IndexOf(s, ch) = 0 THEN <<s>>
    ELSE <<SubSeq(s, 1, IndexOf(s, ch) - 1)>>
             \o SplitOn(SubSeq(s, IndexOf(s, ch) + 1, Len(s)), ch)

\* The <<name, value>> pairs of a query string, in order
QueryPairs(query) ==
    IF query = "" THEN <<>>
    ELSE LET pieces == SplitOn(query, "&") IN
         [i \in 1..Len(pieces) |->
             LET eq == IndexOf(pieces[i], "=") IN
             IF eq = 0 THEN <<pieces[i], "">>
             ELSE <<SubSeq(pieces[i], 1, eq - 1), SubSeq(pieces[i], eq + 1, Len(pieces[i]))>>]

QueryNames(query) == {QueryPairs(query)[i][1] : i \in 1..Len(QueryPairs(query))}

\* The values a query gives to a name
QueryValues(query, name) ==
    {QueryPairs(query)[i][2] :
        i \in {j \in 1..Len(QueryPairs(query)) : QueryPairs(query)[j][1] = name}}

DigitValue(ch) ==
    CASE ch = "0" -> 0 [] ch = "1" -> 1 [] ch = "2" -> 2 [] ch = "3" -> 3 [] ch = "4" -> 4
      [] ch = "5" -> 5 [] ch = "6" -> 6 [] ch = "7" -> 7 [] ch = "8" -> 8 [] ch = "9" -> 9

RECURSIVE NaturalValue(_)
NaturalValue(s) ==
    IF Len(s) = 1 THEN DigitValue(s)
    ELSE 10 * NaturalValue(SubSeq(s, 1, Len(s) - 1)) + DigitValue(SubSeq(s, Len(s), Len(s)))

DecimalValue(s) ==
    IF SubSeq(s, 1, 1) = "-" THEN 0 - NaturalValue(SubSeq(s, 2, Len(s))) ELSE NaturalValue(s)

\* C12: getLinks(page, limit) and getWebhookLogs(id, page, limit) send the
\* query parameters page = the page received (1 when omitted, 0 included) and
\* limit = min(limit, 100) (limit being 20 when omitted).
C12_LimitClampedPageLiteral ==
    \A c \in Calls :
        c.op \in {"getLinks", "getWebhookLogs"} =>
            LET query == QueryOf(c.req.url)
                page == IF c.args.page.def THEN c.args.page.v ELSE 1
                limit == IF c.args.limit.def THEN c.args.limit.v ELSE 20
            IN  /\ Cardinality(QueryValues(query, "page")) = 1
                /\ Cardinality(QueryValues(query, "limit")) = 1
                /\ \A v \in QueryValues(query, "page") : DecimalValue(v) = page
                /\ \A v \in QueryValues(query, "limit") :
                       /\ DecimalValue(v) <= 100
                       /\ limit <= 100 => DecimalValue(v) = limit
                       /\ limit > 100 => DecimalValue(v) = 100

C12_Witness ==
    \E c \in Calls :
        /\ c.op = "getLinks"
        /\ c.args.page = Some(0)
        /\ c.args.limit = Some(500)
        /\ c.req.url = client.config.apiUrl \o "/api/link?page=0&limit=100"

\* The JSON text holding exactly the fields of each DTO, written out by hand
ExactJson(data) ==
    CASE data = DtoUrlOnly -> "{\"url\":\"https://example.com\"}"
      [] data = DtoNullField ->
             "{\"url\":\"https://example.com\",\"facebookPixelId\":null,\"key\":\"promo\"}"
      [] data = DtoUndefinedField -> "{\"url\":\"https://example.com\"}"
      [] data = DtoEmpty -> "{}"
      [] data = DtoFalsy ->
             "{\"name\":\"\",\"priority\":0,\"isActive\":false,\"events\":[\"link.clicked\"]}"

ExactRuleIdsJson(ruleIds) ==
    CASE ruleIds = <<"rule-2", "rule-1">> -> "{\"ruleIds\":[\"rule-2\",\"rule-1\"]}"
      [] ruleIds = <<"rule-1", "rule-2">> -> "{\"ruleIds\":[\"rule-1\",\"rule-2\"]}"
      [] ruleIds = <<"rule-3">> -> "{\"ruleIds\":[\"rule-3\"]}"

\* C13: every mutating call that takes a DTO sends as JSON body exactly the
\* fields provided (unspecified fields absent, null fields sent as null, no
\* key added, dropped or renamed); reorderLinkRules sends {ruleIds} in the
\* order given and changeDomainVerificationMethod sends {method}.
C13_BodyIsExactlyTheDto ==
    \A c \in Calls :
        /\ c.op \in DtoOps => c.req.body = Some(ExactJson(c.args.data))
        /\ c.op = "reorderLinkRules" => c.req.body = Some(ExactRuleIdsJson(c.args.ruleIds))
        /\ c.op = "changeDomainVerificationMethod" =>
               c.req.body = Some("{\"method\":\"" \o c.args.method \o "\"}")

C13_Witness ==
    /\ \E c \in Calls :
           /\ c.op = "updateLink"
           /\ c.args.data = DtoNullField
           /\ c.req.body =
                  Some("{\"url\":\"https://example.com\",\"facebookPixelId\":null,\"key\":\"promo\"}")

\* The pairs of a query other than those of one name
QueryWithout(query, name) == SelectSeq(QueryPairs(query), LAMBDA p : p[1] # name)

\* The options of a call with the format member taken out
WithoutFormat(options) ==
    IF options.def THEN Some([options.v EXCEPT !.format = Undefined]) ELSE Undefined

\* C14: getQRCodePng always requests format=png and getQRCodeSvg format=svg,
\* whatever the other options and whatever format the options object holds,
\* and the other options go to the request as getQRCode sends them.
C14_WrappersForceFormat ==
    \A c \in Calls :
        c.op \in {"getQRCodePng", "getQRCodeSvg"} =>
            LET query == QueryOf(c.req.url)
                plain == getQRCode(Self, [c.args EXCEPT !.options = WithoutFormat(c.args.options)])
            IN  /\ QueryValues(query, "format") = {IF c.op = "getQRCodePng" THEN "png" ELSE "svg"}
                /\ Len(SelectSeq(QueryPairs(query), LAMBDA p : p[1] = "format")) = 1
                /\ QueryWithout(query, "format") = QueryPairs(QueryOf(plain.url))
                /\ PathOf(c.req.url) = PathOf(plain.url)

C14_Witness ==
    \E c \in Calls :
        /\ c.op = "getQRCodePng"
        /\ c.args.options.def
        /\ c.args.options.v.format = Some("svg")
        /\ c.args.options.v.width = Some(512)
        /\ c.req.url = client.config.apiUrl \o
               "/api/link/abc123/qrcode?width=512&margin=4&darkColor=%23000000&lightColor=%23ffffff&errorCorrectionLevel=M&format=png"

\* C15: createLink sends X-Source equal to its source argument, "api" when the
\* argument is omitted, together with X-API-Key and Content-Type; no other
\* operation sends X-Source.
C15_SourceHeaderOnLinkCreationOnly ==
    \A c \in Calls :
        IF c.op = "createLink"
        THEN /\ {"X-Source", "X-API-Key", "Content-Type"} \subseteq DOMAIN c.req.headers
             /\ c.args.source.def => c.req.headers["X-Source"] = c.args.source.v
             /\ ~c.args.source.def => c.req.headers["X-Source"] = "api"
             /\ c.req.headers["X-API-Key"] = client.config.apiKey
             /\ c.req.headers["Content-Type"] = "application/json"
        ELSE "X-Source" \notin DOMAIN c.req.headers

C15_Witness ==
    /\ \E c \in Calls :
           c.op = "createLink" /\ ~c.args.source.def /\ c.req.headers["X-Source"] = "api"
    /\ calls # <<>>
    /\ calls[Len(calls)].pc = "done"

\* The settled calls that received a 2xx response whose body parsed
ParsedOkCalls ==
    {c \in Calls : c.pc = "done" /\ c.response # NoResponse /\ ok(c.response)
                       /\ c.body # NotRead /\ c.body.ok}

\* C16: on a 2xx response the call resolves with the parsed JSON body of the
\* response, unchanged.
C16_ResolvesWithParsedBody ==
    \A c \in ParsedOkCalls : c.outcome = Resolved(c.body.value)

\* C16 (amended): on a 2xx response the call resolves with the parsed JSON
\* body unchanged, except deleteOgImage, deletePixelPreset and deleteBioPage,
\* which resolve with undefined.
C16_ResolvesWithParsedBodyUnlessVoid ==
    \A c \in ParsedOkCalls :
        IF c.op \in {"deleteOgImage", "deletePixelPreset", "deleteBioPage"}
        THEN c.outcome = Resolved(JUndefined)
        ELSE c.outcome = Resolved(c.body.value)

C16_Witness ==
    /\ \E c \in ParsedOkCalls :
           /\ c.op = "getLinks"
           /\ c.body.value = JObj(<<Prop("available", Some(JBool(TRUE)))>>)
           /\ c.outcome = Resolved(JObj(<<Prop("available", Some(JBool(TRUE)))>>))

\* C17: when the HTTP call itself rejects, the operation rejects with that
\* same error, unmodified and unwrapped; when a 2xx response has a body that
\* cannot be parsed, the operation rejects with the parse error.
C17_TransportAndParseErrorsPropagate ==
    \A c \in Calls :
        /\ c.failure \in TransportErrors =>
               c.pc = "done" /\ c.outcome = Rejected(c.failure)
        /\ (c.pc = "done" /\ c.response # NoResponse /\ ok(c.response)
                /\ c.body # NotRead /\ ~c.body.ok) =>
               c.outcome = Rejected(c.body.error)

C17_Witness ==
    \E c \in Calls :
        /\ c.op = "uploadOgImage"
        /\ c.failure = DnsError
        /\ c.outcome = Rejected([name |-> "Error", message |-> "getaddrinfo ENOTFOUND hou.la"])

\* C18: there is no retry: each invocation of a public operation issues
\* exactly one HTTP request whatever the outcome, and a failure is reported to
\* the caller without any further request being sent.
C18_OneRequestPerInvocation ==
    \A c \in Calls :
        /\ c.fetches = 1
        /\ c.failure # NoError => c.pc = "done" /\ c.outcome.state = "rejected"
        /\ c.outcome.state # "pending" <=> c.pc = "done"

C18_Witness ==
    \E c \in Calls :
        /\ c.failure = NetworkError
        /\ c.pc = "done"
        /\ c.fetches = 1
        /\ c.outcome = Rejected(NetworkError)

\* C19: concurrent calls on one client are independent: each has its own
\* signal and timer, a step of one call (its timeout, abort, failure or
\* answer) leaves every other call as it was, a settled call keeps its
\* outcome, and a call in flight can always proceed whatever the state of the
\* other calls.
C19_ConcurrentCallsIndependent ==
    [][/\ \A i \in DOMAIN calls :
              /\ i \in DOMAIN calls'
              /\ calls'[i] # calls[i] =>
                     \A j \in DOMAIN calls \ {i} : calls'[j] = calls[j]
              /\ calls[i].pc = "done" => calls'[i] = calls[i]
       /\ \A i \in DOMAIN calls :
              /\ calls[i].pc = "fetch" => ENABLED FetchRejects(i, NetworkError)
              /\ calls[i].pc = "fetch" =>
                     ENABLED FetchResolves(i, [status |-> 200, statusText |-> "OK"])
              /\ calls[i].pc \in {"okBody", "errBody", "anyBody"} =>
                     ENABLED BodySettles(i, [ok |-> FALSE, error |-> ParseError])
              /\ (calls[i].pc # "done" /\ calls[i].req.timer.def) =>
                     (calls[i].pc = "okBody" \/ ENABLED TimerFires(i))]_vars

C19_Witness ==
    /\ Len(calls) >= 2
    /\ calls[1].op = "getLinks"
    /\ calls[1].timer = "fired"
    /\ calls[1].outcome = Rejected(AbortError)
    /\ calls[2].op = "getLinks"
    /\ calls[2].pc = "errBody"
    /\ calls[2].timer = "armed"
    /\ calls[2].outcome = Pending

\* C20: the configuration of a client (API key, base URL, timeout) never
\* changes after construction, whatever the operations and their outcomes;
\* each request is the one a client just constructed from the same input
\* would build, so its URL prefix, X-API-Key and timeout do not depend on
\* earlier calls.
C20_ConfigImmutable ==
    [][client.constructed =>
          /\ client'.constructed
          /\ client'.config.apiKey = client.config.apiKey
          /\ client'.config.apiUrl = client.config.apiUrl
          /\ client'.config.timeout = client.config.timeout
          /\ client.config = createConfig(cfgIn).value
          /\ Dispatches =>
                 LET c == calls'[Len(calls')]
                     fresh == [config |-> createConfig(cfgIn).value, workspaceId |-> workspaceId]
                 IN  /\ c.req = Invoke(c.op, fresh, c.args)
                     /\ startsWith(c.req.url, OrString(cfgIn.apiUrl, "https://hou.la"))
                     /\ "X-API-Key" \in DOMAIN c.req.headers =>
                            c.req.headers["X-API-Key"] = cfgIn.apiKey
                     /\ c.req.timer.def => c.req.timer.v = OrNumber(cfgIn.timeout, 30000)]_vars

C20_Witness ==
    /\ client.constructed
    /\ cfgIn.timeout = Some(5000)
    /\ client.config.timeout = 5000
    /\ client.config.apiUrl = "https://api.test.com"
    /\ \E c \in Calls : c.timer = "fired" /\ c.pc = "done" /\ c.req.timer = Some(5000)

\* The options of a getQRCode call, none being supplied when the argument is
\* omitted
SuppliedOptions(c) == IF c.args.options.def THEN c.args.options.v ELSE NoQRCodeOptions

\* C21: getQRCode puts in the query string exactly the options supplied, each
\* with the supplied value (a numeric 0 like any other value), and sends no
\* query string when no option is supplied.
C21_QueryIsExactlyTheOptions ==
    \A c \in Calls :
        c.op = "getQRCode" =>
            LET o == SuppliedOptions(c)
                query == QueryOf(c.req.url)
                Numeric(name, opt) ==
                    IF opt.def
                    THEN /\ Cardinality(QueryValues(query, name)) = 1
                         /\ \A v \in QueryValues(query, name) : DecimalValue(v) = opt.v
                    ELSE name \notin QueryNames(query)
                Text(name, opt) ==
                    IF opt.def
                    THEN QueryValues(query, name) = {FormEncode(opt.v)}
                    ELSE name \notin QueryNames(query)
            IN  /\ Numeric("width", o.width)
                /\ Numeric("margin", o.margin)
                /\ Text("darkColor", o.darkColor)
                /\ Text("lightColor", o.lightColor)
                /\ Text("errorCorrectionLevel", o.errorCorrectionLevel)
                /\ Text("format", o.format)
                /\ o = NoQRCodeOptions => c.req.url = client.config.apiUrl \o "/api/link/abc123/qrcode"

\* C22: getLinkById(id) sends its request to a URL containing
\* /api/link/by-id/{id}, an endpoint distinct from /api/link/{key}, the one
\* getLinkByKey(key) uses.
C22_LinkByIdHasItsOwnEndpoint ==
    \A c \in Calls :
        c.op = "getLinkById" =>
            /\ Contains(c.req.url, "/api/link/by-id/" \o c.args.id)
            /\ c.req.url # getLinkByKey(Self, c.args).url

\* C23: every call eventually settles once its timeout has elapsed, assuming
\* only that the timer fires, even when the server never answers and even when
\* it sends a 2xx status line and never finishes the body.
C23_EveryCallSettles ==
    \A i \in 1..MaxCalls :
        (i \in DOMAIN calls) ~> (i \in DOMAIN calls /\ calls[i].pc = "done")

\* C24: a request carries the workspace id that is current when it is
\* dispatched, and changing the workspace id afterwards changes the headers of
\* no request already in flight.
C24_WorkspaceFixedAtDispatch ==
    [][/\ Len(calls') > Len(calls) =>
              LET headers == calls'[Len(calls')].req.headers IN
              IF workspaceId.def
              THEN /\ "X-Workspace-Id" \in DOMAIN headers
                   /\ headers["X-Workspace-Id"] = workspaceId.v
              ELSE "X-Workspace-Id" \notin DOMAIN headers
       /\ \A i \in DOMAIN calls :
              i \in DOMAIN calls' /\ calls'[i].req = calls[i].req]_vars

\* The apiUrl the caller configured, https://hou.la when none was given
ConfiguredApiUrl ==
    IF cfgIn.apiUrl.def /\ cfgIn.apiUrl.v # "" THEN cfgIn.apiUrl.v ELSE "https://hou.la"

\* C25: every request URL built by a public operation begins with the
\* configured apiUrl, followed by a path under /api/, so X-API-Key is never
\* sent outside the configured base URL whatever ids, keys and options the
\* caller passes.
C25_UrlsUnderConfiguredApiUrl ==
    \A c \in Calls :
        /\ Len(c.req.url) >= Len(ConfiguredApiUrl) + 5
        /\ SubSeq(c.req.url, 1, Len(ConfiguredApiUrl)) = ConfiguredApiUrl
        /\ SubSeq(c.req.url, Len(ConfiguredApiUrl) + 1, Len(ConfiguredApiUrl) + 5) = "/api/"

C25_Witness ==
    \E c \in Calls :
        /\ c.op = "getLinkByKey"
        /\ c.args.id = "http://evil.example/x"
        /\ cfgIn.apiUrl = Some("https://api.test.com")
        /\ c.req.url = "https://api.test.com/api/link/http://evil.example/x"
        /\ "X-API-Key" \in DOMAIN c.req.headers

\* C26: in request() and uploadOgImage() the timer armed for a call is
\* cleared on every exit path (2xx, non-2xx, transport failure, abort): a
\* settled call has no armed timer, its timer cannot fire any more, and a
\* timer that fired did so while the call was pending.
C26_TimerClearedOnEveryExit ==
    \A i \in DOMAIN calls :
        LET c == calls[i] IN
        c.req.handler \in {"request", "upload"} =>
            /\ c.timer \in {"armed", "cleared", "fired"}
            /\ c.pc = "done" => c.timer \in {"cleared", "fired"} /\ ~ENABLED TimerFires(i)
            /\ c.pc = "okBody" => c.timer = "cleared"
            /\ c.timer = "fired" =>
                   c.pc = "done" /\ c.outcome.state = "rejected"

C26_Witness ==
    \E c \in Calls :
        /\ c.op = "uploadOgImage"
        /\ c.pc = "done"
        /\ c.response = [status |-> 500, statusText |-> "Internal Server Error"]
        /\ c.outcome.state = "rejected"
        /\ c.timer = "cleared"

LookupTwin(c) ==
    NewCall(IF c.op = "getLinkById" THEN "getLinkByKey" ELSE "getLinkById", c.args)

\* Two calls stand at the same point with the same outcome
SameProgress(c, d) ==
    /\ c.pc = d.pc
    /\ c.timer = d.timer
    /\ c.outcome = d.outcome

C29_VoidOperationsNeedParsableBody ==
    \A c \in Calls :
        (/\ c.op \in {"deletePixelPreset", "deleteBioPage", "deleteOgImage"}
         /\ c.pc = "done"
         /\ c.response # NoResponse
         /\ ok(c.response)) =>
            /\ c.body # NotRead
            /\ c.outcome.state = "resolved" <=> c.body.ok
            /\ ~c.body.ok => c.outcome = Rejected(c.body.error)

C29_Witness ==
    \E c \in Calls :
        /\ c.op = "deletePixelPreset"
        /\ c.response = [status |-> 200, statusText |-> "OK"]
        /\ c.body = [ok |-> FALSE, error |-> ParseError]
        /\ c.outcome =
               Rejected([name |-> "SyntaxError", message |-> "Unexpected end of JSON input"])

\* C30: createConfig never returns a configuration whose timeout is 0 or whose
\* apiUrl is empty: a supplied timeout 0 becomes 30000 and a supplied empty
\* apiUrl becomes https://hou.la, and any other supplied value, a negative
\* timeout included, is kept as given.
C30_NoZeroTimeoutNoEmptyApiUrl ==
    client.constructed =>
        /\ client.config.timeout # 0
        /\ client.config.apiUrl # ""
        /\ cfgIn.timeout = Some(0) => client.config.timeout = 30000
        /\ cfgIn.apiUrl = Some("") => client.config.apiUrl = "https://hou.la"
        /\ \A t \in {5000, -1} : cfgIn.timeout = Some(t) => client.config.timeout = t
        /\ cfgIn.apiUrl = Some("https://api.test.com") =>
               client.config.apiUrl = "https://api.test.com"

C30_Witness ==
    /\ client.constructed
    /\ cfgIn.timeout = Some(-1)
    /\ cfgIn.apiUrl = Some("")
    /\ client.config.timeout = -1
    /\ client.config.apiUrl = "https://hou.la"

====
